---- MODULE Spec2Model ----
(***************************************************************************)
(* Linux tabbing support of Alacritty (alacritty/src/linux_tabs.rs):       *)
(* detection of the desktop environment from XDG_CURRENT_DESKTOP, the      *)
(* three tab actions that run one external command each, and the           *)
(* availability probe.                                                     *)
(*                                                                         *)
(* Text is a sequence of Unicode code points, raw process data (the value  *)
(* of an environment variable, a child's standard error) a sequence of     *)
(* bytes.  Program names and command-line arguments are only ever compared *)
(* as wholes and are TLA+ strings.                                         *)
(***************************************************************************)
EXTENDS Integers, Sequences, FiniteSets, TLC

(***************************************************************************)
(* Bounds of the model.                                                    *)
(***************************************************************************)
\* Number of fragments an XDG_CURRENT_DESKTOP value is concatenated from.
MaxParts == 2
\* Number of detect_desktop_environment calls that are counted.
MaxDetectCalls == 2
\* Length of a child's standard error drawn from StderrBytes.
MaxStderrLen == 2
\* Number of tab-action calls that are counted.
MaxCalls == 3
\* Number of threads that call the tab actions concurrently.
NThreads == 2

(***************************************************************************)
(* Text.                                                                   *)
(***************************************************************************)
\* The printable ASCII characters in code order, from 32 (space) to 126
\* (the grave accent, 96, is spelled out: no literal of the source has it).
AsciiPrintable ==
    << " ", "!", "\"", "#", "$", "%", "&", "'", "(", ")", "*", "+", ",", "-",
       ".", "/", "0", "1", "2", "3", "4", "5", "6", "7", "8", "9", ":", ";",
       "<", "=", ">", "?", "@", "A", "B", "C", "D", "E", "F", "G", "H", "I",
       "J", "K", "L", "M", "N", "O", "P", "Q", "R", "S", "T", "U", "V", "W",
       "X", "Y", "Z", "[", "\\", "]", "^", "_", "grave", "a", "b", "c", "d", "e",
       "f", "g", "h", "i", "j", "k", "l", "m", "n", "o", "p", "q", "r", "s",
       "t", "u", "v", "w", "x", "y", "z", "{", "|", "}", "~" >>

\* The code point of a printable ASCII character.
Ord(c) == 31 + (CHOOSE i \in 1..Len(AsciiPrintable) : AsciiPrintable[i] = c)

\* A string literal of the source: its characters as code points (for ASCII
\* these are also its UTF-8 bytes).
Str(cs) == [i \in 1..Len(cs) |-> Ord(cs[i])]

\* U+FFFD, which String::from_utf8_lossy puts in place of invalid bytes.
REPLACEMENT_CHARACTER == 65533

\* What the decoder yields for a maximal invalid byte sequence, before the
\* caller decides what to do with it; no code point has this value.
InvalidSequence == 1114112

IsCont(b) == b >= 128 /\ b <= 191

\* Lowest and highest second byte that may follow the lead byte b of a
\* multi-byte sequence (the UTF-8 well-formedness table).
SecondLo(b) == IF b = 224 THEN 160 ELSE IF b = 240 THEN 144 ELSE 128
SecondHi(b) == IF b = 237 THEN 159 ELSE IF b = 244 THEN 143 ELSE 191

\* Number of bytes of the sequence the lead byte b announces; 0 for a byte
\* that cannot start a sequence.
Utf8Width(b) ==
    IF b < 128 THEN 1
    ELSE IF b >= 194 /\ b <= 223 THEN 2
    ELSE IF b >= 224 /\ b <= 239 THEN 3
    ELSE IF b >= 240 /\ b <= 244 THEN 4
    ELSE 0

\* The decoding of the bytes from position i on: one code point for each
\* well-formed sequence, InvalidSequence for each maximal ill-formed one.
RECURSIVE Utf8Decode(_, _)
Utf8Decode(bytes, i) ==
    IF i > Len(bytes) THEN << >>
    ELSE
      LET b == bytes[i]
          w == Utf8Width(b)
          has(k) == i + k <= Len(bytes)
          at(k) == bytes[i + k]
          ok2 == has(1) /\ at(1) >= SecondLo(b) /\ at(1) <= SecondHi(b)
          ok3 == ok2 /\ has(2) /\ IsCont(at(2))
          ok4 == ok3 /\ has(3) /\ IsCont(at(3))
      IN  IF w = 1 THEN <<b>> \o Utf8Decode(bytes, i + 1)
          ELSE IF w = 2 /\ ok2
            THEN <<(b - 192) * 64 + (at(1) - 128)>> \o Utf8Decode(bytes, i + 2)
          ELSE IF w = 3 /\ ok3
            THEN <<(b - 224) * 4096 + (at(1) - 128) * 64 + (at(2) - 128)>>
                 \o Utf8Decode(bytes, i + 3)
          ELSE IF w = 4 /\ ok4
            THEN <<(b - 240) * 262144 + (at(1) - 128) * 4096
                   + (at(2) - 128) * 64 + (at(3) - 128)>>
                 \o Utf8Decode(bytes, i + 4)
          ELSE
            \* ill-formed: the lead byte and the bytes that were accepted
            \* after it make one invalid sequence
            LET bad == IF w >= 3 /\ ok2
                         THEN (IF w = 4 /\ ok3 THEN 3 ELSE 2)
                         ELSE 1
            IN  <<InvalidSequence>> \o Utf8Decode(bytes, i + bad)

\* String::from_utf8_lossy(bytes): the text, with U+FFFD for invalid bytes.
from_utf8_lossy(bytes) ==
    LET d == Utf8Decode(bytes, 1)
    IN  [i \in 1..Len(d) |->
            IF d[i] = InvalidSequence THEN REPLACEMENT_CHARACTER ELSE d[i]]

\* Whether text t starts with pat at position i.
RECURSIVE MatchesAt(_, _, _, _)
MatchesAt(t, pat, i, k) ==
    IF k > Len(pat) THEN TRUE
    ELSE IF i + k - 1 > Len(t) THEN FALSE
    ELSE IF t[i + k - 1] # pat[k] THEN FALSE
    ELSE MatchesAt(t, pat, i, k + 1)

\* str::contains(pat): a left-to-right search for the first occurrence.
RECURSIVE SearchFrom(_, _, _)
SearchFrom(t, pat, i) ==
    IF i + Len(pat) - 1 > Len(t) THEN FALSE
    ELSE IF MatchesAt(t, pat, i, 1) THEN TRUE
    ELSE SearchFrom(t, pat, i + 1)

contains(t, pat) == SearchFrom(t, pat, 1)

(***************************************************************************)
(* State.                                                                  *)
(***************************************************************************)
VARIABLES
    xdg,           \* the process environment's entry for XDG_CURRENT_DESKTOP
    detected,      \* what the last detect_desktop_environment call returned
    detect_calls,  \* number of detect_desktop_environment calls made
    dirty,         \* whether xdg was changed since the last such call
    pc,            \* per thread: where its call of a method stands
    receiver,      \* per thread: the DesktopEnvironment the method is called on
    op,            \* per thread: the method called
    proc,          \* per thread: the Command the call has launched
    attempts,      \* per thread: launches the call has attempted
    out,           \* per thread: what Command::output returned to the call
    ret,           \* per thread: what the call returned
    calls,         \* number of tab-action calls made
    spawns         \* number of launches attempted by tab-action calls

detect_vars == <<xdg, detected, detect_calls, dirty>>
call_vars == <<pc, receiver, op, proc, attempts, out, ret, calls, spawns>>
vars == <<xdg, detected, detect_calls, dirty,
          pc, receiver, op, proc, attempts, out, ret, calls, spawns>>

(***************************************************************************)
(* Values of the source's types.                                           *)
(***************************************************************************)
\* enum DesktopEnvironment { GNOME, KDE }
DesktopEnvironment == {"GNOME", "KDE"}

\* Option<T>
None == [some |-> FALSE]
Some(v) == [some |-> TRUE, val |-> v]

\* An entry of the process environment: absent, or the bytes of its value.
Unset == [set |-> FALSE]
SetTo(bytes) == [set |-> TRUE, value |-> bytes]

\* Result<(), Box<dyn std::error::Error>>: the error is shown by its text.
Ok == [ok |-> TRUE]
Err(msg) == [ok |-> FALSE, err |-> msg]

\* std::process::ExitStatus, and ExitStatus::success.
Exited(code) == [exited |-> TRUE, code |-> code]
Signaled(sig) == [exited |-> FALSE, signal |-> sig]
success(status) == status.exited /\ status.code = 0

\* io::Result<std::process::Output>, as Command::output returns it.
IoErr(kind) == [ok |-> FALSE, err |-> kind]
Output(status, stdout, stderr) ==
    [ok |-> TRUE, status |-> status, stdout |-> stdout, stderr |-> stderr]

\* The text of an io::Error (its Display), which is all that is left of it
\* once `?` has boxed it.
NotFound_text ==
    Str(<<"N", "o", " ", "s", "u", "c", "h", " ", "f", "i", "l", "e", " ",
          "o", "r", " ", "d", "i", "r", "e", "c", "t", "o", "r", "y", " ",
          "(", "o", "s", " ", "e", "r", "r", "o", "r", " ", "2", ")">>)

PermissionDenied_text ==
    Str(<<"P", "e", "r", "m", "i", "s", "s", "i", "o", "n", " ", "d", "e",
          "n", "i", "e", "d", " ", "(", "o", "s", " ", "e", "r", "r", "o",
          "r", " ", "1", "3", ")">>)

io_error_to_string(kind) ==
    IF kind = "NotFound" THEN NotFound_text ELSE PermissionDenied_text

\* std::process::Command: a program and its arguments.
Command(program, args) == [program |-> program, args |-> args]
NoCommand == [program |-> "", args |-> << >>]

(***************************************************************************)
(* detect_desktop_environment.                                             *)
(***************************************************************************)
\* env::var(key): the value as a String, or an error when the variable is
\* absent (NotPresent) or its bytes are not valid UTF-8 (NotUnicode).
env_var(entry) ==
    IF ~entry.set THEN [ok |-> FALSE, err |-> "NotPresent"]
    ELSE LET d == Utf8Decode(entry.value, 1)
         IN  IF \E i \in 1..Len(d) : d[i] = InvalidSequence
               THEN [ok |-> FALSE, err |-> "NotUnicode"]
               ELSE [ok |-> TRUE, val |-> d]

lit_GNOME == Str(<<"G", "N", "O", "M", "E">>)
lit_KDE == Str(<<"K", "D", "E">>)

\* detect_desktop_environment comparing the whole value instead of
\* searching it.
detect_desktop_environment_exact(entry) ==
    LET r == env_var(entry)
    IN  IF ~r.ok THEN None
        ELSE LET desktop == r.val
             IN  IF desktop = lit_GNOME THEN Some("GNOME")
                 ELSE IF desktop = lit_KDE THEN Some("KDE")
                 ELSE None

\* detect_desktop_environment testing for KDE before GNOME.
detect_desktop_environment_kde_first(entry) ==
    LET r == env_var(entry)
    IN  IF ~r.ok THEN None
        ELSE LET desktop == r.val
             IN  IF contains(desktop, lit_KDE) THEN Some("KDE")
                 ELSE IF contains(desktop, lit_GNOME) THEN Some("GNOME")
                 ELSE None

\* The value detect_desktop_environment returns when the environment's
\* entry is `entry`.
detect_desktop_environment(entry) ==
    LET r == env_var(entry)
    IN  IF ~r.ok THEN None                 \* .ok()?
        ELSE LET desktop == r.val
             IN  IF contains(desktop, lit_GNOME) THEN Some("GNOME")
                 ELSE IF contains(desktop, lit_KDE) THEN Some("KDE")
                 ELSE None

(***************************************************************************)
(* impl DesktopEnvironment: for each method the Command it builds and what *)
(* it returns once Command::output has returned `o`.                       *)
(***************************************************************************)
gdbus_eval(script) ==
    Command("gdbus",
            << "call", "--session",
               "--dest", "org.gnome.Shell",
               "--object-path", "/org/gnome/Shell",
               "--method", "org.gnome.Shell.Eval",
               script >>)

\* The text of the format! of create_tab.
GNOME_tab_creation_failed ==
    Str(<<"G", "N", "O", "M", "E", " ", "t", "a", "b", " ", "c", "r", "e",
          "a", "t", "i", "o", "n", " ", "f", "a", "i", "l", "e", "d", ":",
          " ">>)

KDE_tab_creation_failed ==
    Str(<<"K", "D", "E", " ", "t", "a", "b", " ", "c", "r", "e", "a", "t",
          "i", "o", "n", " ", "f", "a", "i", "l", "e", "d", ":", " ">>)

create_tab_command(self) ==
    IF self = "GNOME"
      THEN gdbus_eval("global.display.focus_window && global.display.focus_window.new_tab()")
      ELSE Command("qdbus", <<"org.kde.konsole", "/Konsole", "org.kde.KMainWindow.newTab">>)

create_tab_failed(self) ==
    IF self = "GNOME" THEN GNOME_tab_creation_failed ELSE KDE_tab_creation_failed

\* create_tab not looking at the exit status.
create_tab_unchecked(self, o) ==
    IF ~o.ok THEN Err(io_error_to_string(o.err))
    ELSE Ok

create_tab(self, o) ==
    IF ~o.ok THEN Err(io_error_to_string(o.err))          \* .output()?
    ELSE IF success(o.status) THEN Ok
    ELSE Err(create_tab_failed(self) \o from_utf8_lossy(o.stderr))

\* The text of the format! of select_next_tab.
GNOME_next_tab_selection_failed ==
    Str(<<"G", "N", "O", "M", "E", " ", "n", "e", "x", "t", " ", "t", "a",
          "b", " ", "s", "e", "l", "e", "c", "t", "i", "o", "n", " ", "f",
          "a", "i", "l", "e", "d", ":", " ">>)

KDE_next_tab_selection_failed ==
    Str(<<"K", "D", "E", " ", "n", "e", "x", "t", " ", "t", "a", "b", " ",
          "s", "e", "l", "e", "c", "t", "i", "o", "n", " ", "f", "a", "i",
          "l", "e", "d", ":", " ">>)

select_next_tab_command(self) ==
    IF self = "GNOME"
      THEN gdbus_eval("global.display.focus_window && global.display.focus_window.switch_to_next_tab()")
      ELSE Command("qdbus", <<"org.kde.konsole", "/Konsole", "org.kde.KMainWindow.nextTab">>)

select_next_tab_failed(self) ==
    IF self = "GNOME" THEN GNOME_next_tab_selection_failed ELSE KDE_next_tab_selection_failed

select_next_tab(self, o) ==
    IF ~o.ok THEN Err(io_error_to_string(o.err))          \* .output()?
    ELSE IF success(o.status) THEN Ok
    ELSE Err(select_next_tab_failed(self) \o from_utf8_lossy(o.stderr))

\* The text of the format! of select_previous_tab.
GNOME_previous_tab_selection_failed ==
    Str(<<"G", "N", "O", "M", "E", " ", "p", "r", "e", "v", "i", "o", "u",
          "s", " ", "t", "a", "b", " ", "s", "e", "l", "e", "c", "t", "i",
          "o", "n", " ", "f", "a", "i", "l", "e", "d", ":", " ">>)

KDE_previous_tab_selection_failed ==
    Str(<<"K", "D", "E", " ", "p", "r", "e", "v", "i", "o", "u", "s", " ",
          "t", "a", "b", " ", "s", "e", "l", "e", "c", "t", "i", "o", "n",
          " ", "f", "a", "i", "l", "e", "d", ":", " ">>)

\* select_previous_tab building the command of select_next_tab.
select_previous_tab_command_pasted(self) == select_next_tab_command(self)

select_previous_tab_command(self) ==
    IF self = "GNOME"
      THEN gdbus_eval("global.display.focus_window && global.display.focus_window.switch_to_previous_tab()")
      ELSE Command("qdbus", <<"org.kde.konsole", "/Konsole", "org.kde.KMainWindow.previousTab">>)

\* select_previous_tab reporting with the message of select_next_tab.
select_previous_tab_failed_pasted(self) == select_next_tab_failed(self)

select_previous_tab_failed(self) ==
    IF self = "GNOME" THEN GNOME_previous_tab_selection_failed ELSE KDE_previous_tab_selection_failed

select_previous_tab(self, o) ==
    IF ~o.ok THEN Err(io_error_to_string(o.err))          \* .output()?
    ELSE IF success(o.status) THEN Ok
    ELSE Err(select_previous_tab_failed(self) \o from_utf8_lossy(o.stderr))

is_available_command(self) ==
    IF self = "GNOME" THEN Command("which", <<"gdbus">>)
                      ELSE Command("which", <<"qdbus">>)

\* is_available taking a probe that cannot be launched for a success.
is_available_unwrap_true(self, o) ==
    IF o.ok THEN success(o.status) ELSE TRUE

\* .map(|output| output.status.success()).unwrap_or(false)
is_available(self, o) ==
    IF o.ok THEN success(o.status) ELSE FALSE

TabActions == {"create_tab", "select_next_tab", "select_previous_tab"}
Methods == TabActions \cup {"is_available"}

\* The Command method m builds when called on self.
command_of(m, self) ==
    CASE m = "create_tab" -> create_tab_command(self)
      [] m = "select_next_tab" -> select_next_tab_command(self)
      [] m = "select_previous_tab" -> select_previous_tab_command(self)
      [] m = "is_available" -> is_available_command(self)

\* What method m, called on self, returns once Command::output returned o.
return_of(m, self, o) ==
    CASE m = "create_tab" -> create_tab(self, o)
      [] m = "select_next_tab" -> select_next_tab(self, o)
      [] m = "select_previous_tab" -> select_previous_tab(self, o)
      [] m = "is_available" -> is_available(self, o)

(***************************************************************************)
(* What the operating system and the child processes may do.               *)
(***************************************************************************)
\* Why a launch fails: the binary is missing, or may not be executed.
SpawnErrors == {"NotFound", "PermissionDenied"}

ExitStatuses == {Exited(0), Exited(1), Signaled(9)}

no_such_window ==
    Str(<<"n", "o", " ", "s", "u", "c", "h", " ", "w", "i", "n", "d", "o",
          "w">>)

\* Bytes a child's standard error is made of: "n", the two bytes of U+00E9,
\* and a byte that no UTF-8 text holds.
StderrBytes == {110, 195, 169, 255}

RECURSIVE BytesUpTo(_)
BytesUpTo(n) ==
    IF n = 0 THEN { << >> }
    ELSE LET shorter == BytesUpTo(n - 1)
         IN  shorter \cup { s \o <<b>> : s \in shorter, b \in StderrBytes }

\* Standard errors: the message of the end-to-end scenario, U+20AC and
\* U+1F4A9 in UTF-8, and every byte string over StderrBytes up to
\* MaxStderrLen.
Stderrs ==
    { no_such_window, <<226, 130, 172>>, <<240, 159, 146, 169>> }
        \cup BytesUpTo(MaxStderrLen)

gdbus_reply == Str(<<"(", "t", "r", "u", "e", ",", " ", "'", "'", ")">>)

Stdouts == { << >>, gdbus_reply }

\* The few standard errors the concurrent calls are run with.
FewStderrs == { << >>, no_such_window }

Threads == 1..NThreads

(***************************************************************************)
(* The calls of the methods, step by step.                                 *)
(***************************************************************************)
InitCalls ==
    /\ pc = [t \in Threads |-> "idle"]
    /\ receiver = [t \in Threads |-> "GNOME"]
    /\ op = [t \in Threads |-> "none"]
    /\ proc = [t \in Threads |-> NoCommand]
    /\ attempts = [t \in Threads |-> 0]
    /\ out = [t \in Threads |-> IoErr("none")]
    /\ ret = [t \in Threads |-> "none"]
    /\ calls = 0
    /\ spawns = 0

\* Thread t calls method m on self.
Call(t, self, m) ==
    /\ pc[t] = "idle"
    /\ m \in TabActions => calls < MaxCalls
    /\ pc' = [pc EXCEPT ![t] = "spawn"]
    /\ receiver' = [receiver EXCEPT ![t] = self]
    /\ op' = [op EXCEPT ![t] = m]
    /\ calls' = IF m \in TabActions THEN calls + 1 ELSE calls
    /\ UNCHANGED <<proc, attempts, out, ret, spawns, detect_vars>>

\* A failed launch that is tried again instead of being returned.
SpawnFails_retry(t, kind) ==
    /\ pc[t] = "spawn"
    /\ proc' = [proc EXCEPT ![t] = command_of(op[t], receiver[t])]
    /\ attempts' = [attempts EXCEPT ![t] = @ + 1]
    /\ spawns' = IF op[t] \in TabActions THEN spawns + 1 ELSE spawns
    /\ out' = [out EXCEPT ![t] = IoErr(kind)]
    /\ UNCHANGED <<pc, ret, receiver, op, calls, detect_vars>>

\* Command::output cannot launch the program: it returns the error, and
\* the method returns.
SpawnFails(t, kind) ==
    /\ pc[t] = "spawn"
    /\ proc' = [proc EXCEPT ![t] = command_of(op[t], receiver[t])]
    /\ attempts' = [attempts EXCEPT ![t] = @ + 1]
    /\ spawns' = IF op[t] \in TabActions THEN spawns + 1 ELSE spawns
    /\ out' = [out EXCEPT ![t] = IoErr(kind)]
    /\ ret' = [ret EXCEPT ![t] = return_of(op[t], receiver[t], IoErr(kind))]
    /\ pc' = [pc EXCEPT ![t] = "returned"]
    /\ UNCHANGED <<receiver, op, calls, detect_vars>>

\* Command::output launches the program and waits for it.
Spawns(t) ==
    /\ pc[t] = "spawn"
    /\ proc' = [proc EXCEPT ![t] = command_of(op[t], receiver[t])]
    /\ attempts' = [attempts EXCEPT ![t] = @ + 1]
    /\ spawns' = IF op[t] \in TabActions THEN spawns + 1 ELSE spawns
    /\ pc' = [pc EXCEPT ![t] = "wait"]
    /\ UNCHANGED <<receiver, op, out, ret, calls, detect_vars>>

\* The child's output kept in one buffer that all the threads share.
Exits_shared(t, status, stdout, stderr) ==
    /\ pc[t] = "wait"
    /\ out' = [u \in Threads |-> Output(status, stdout, stderr)]
    /\ ret' = [ret EXCEPT ![t] =
                  return_of(op[t], receiver[t], Output(status, stdout, stderr))]
    /\ pc' = [pc EXCEPT ![t] = "returned"]
    /\ UNCHANGED <<receiver, op, proc, attempts, calls, spawns, detect_vars>>

\* The child exits: Command::output returns its status and what it wrote,
\* and the method returns.
Exits(t, status, stdout, stderr) ==
    /\ pc[t] = "wait"
    /\ out' = [out EXCEPT ![t] = Output(status, stdout, stderr)]
    /\ ret' = [ret EXCEPT ![t] =
                  return_of(op[t], receiver[t], Output(status, stdout, stderr))]
    /\ pc' = [pc EXCEPT ![t] = "returned"]
    /\ UNCHANGED <<receiver, op, proc, attempts, calls, spawns, detect_vars>>

\* The caller is done with the result; the thread may call again.
Returns(t) ==
    /\ pc[t] = "returned"
    /\ pc' = [pc EXCEPT ![t] = "idle"]
    /\ receiver' = [receiver EXCEPT ![t] = "GNOME"]
    /\ op' = [op EXCEPT ![t] = "none"]
    /\ proc' = [proc EXCEPT ![t] = NoCommand]
    /\ attempts' = [attempts EXCEPT ![t] = 0]
    /\ out' = [out EXCEPT ![t] = IoErr("none")]
    /\ ret' = [ret EXCEPT ![t] = "none"]
    /\ UNCHANGED <<calls, spawns, detect_vars>>

InitDispatch ==
    /\ xdg = Unset
    /\ detected = [called |-> FALSE]
    /\ detect_calls = 0
    /\ dirty = FALSE
    /\ InitCalls

\* One thread calling the four methods one after the other.
NextDispatch ==
    \/ \E self \in DesktopEnvironment, m \in Methods : Call(1, self, m)
    \/ \E kind \in SpawnErrors : SpawnFails(1, kind)
    \/ Spawns(1)
    \/ \E status \in ExitStatuses, so \in Stdouts, se \in Stderrs :
          Exits(1, status, so, se)
    \/ Returns(1)

SpecDispatch == InitDispatch /\ [][NextDispatch]_vars

\* Several threads, each calling a tab action.
NextConcurrent ==
    \E t \in Threads :
        \/ \E self \in DesktopEnvironment, m \in TabActions : Call(t, self, m)
        \/ \E kind \in SpawnErrors : SpawnFails(t, kind)
        \/ Spawns(t)
        \/ \E status \in ExitStatuses, se \in FewStderrs :
              Exits(t, status, << >>, se)

SpecConcurrent == InitDispatch /\ [][NextConcurrent]_vars


(***************************************************************************)
(* Values XDG_CURRENT_DESKTOP is drawn from: up to MaxParts fragments      *)
(* put one after the other.                                                *)
(***************************************************************************)
lit_XFCE == Str(<<"X", "F", "C", "E">>)
lit_ubuntu == Str(<<"u", "b", "u", "n", "t", "u", ":">>)
lit_gnome == Str(<<"g", "n", "o", "m", "e">>)
lit_kde == Str(<<"k", "d", "e">>)

Fragments ==
    { lit_GNOME, lit_KDE, lit_XFCE, lit_ubuntu, lit_gnome, lit_kde, <<255>> }

RECURSIVE Concatenations(_)
Concatenations(n) ==
    IF n = 0 THEN { << >> }
    ELSE LET shorter == Concatenations(n - 1)
         IN  shorter \cup { s \o f : s \in shorter, f \in Fragments }

EnvEntries == {Unset} \cup { SetTo(b) : b \in Concatenations(MaxParts) }

(***************************************************************************)
(* Detection: the calls of detect_desktop_environment, and the             *)
(* environment changing between them.                                      *)
(***************************************************************************)
InitDetect ==
    /\ xdg \in EnvEntries
    /\ detected = [called |-> FALSE]
    /\ detect_calls = 0
    /\ dirty = FALSE
    /\ InitCalls

\* A call of detect_desktop_environment that keeps the first call's result.
Detect_cached ==
    /\ detect_calls < MaxDetectCalls
    /\ detected' = IF detected.called THEN detected
                   ELSE [called |-> TRUE,
                         result |-> detect_desktop_environment(xdg)]
    /\ detect_calls' = detect_calls + 1
    /\ dirty' = FALSE
    /\ UNCHANGED <<xdg, call_vars>>

\* One call of detect_desktop_environment.
Detect ==
    /\ detect_calls < MaxDetectCalls
    /\ detected' = [called |-> TRUE, result |-> detect_desktop_environment(xdg)]
    /\ detect_calls' = detect_calls + 1
    /\ dirty' = FALSE
    /\ UNCHANGED <<xdg, call_vars>>

\* The variable is set, changed or removed (by the user's session or by
\* other code of the process) between two calls.
SetEnv ==
    /\ \E e \in EnvEntries :
          /\ e # xdg
          /\ xdg' = e
    /\ dirty' = TRUE
    /\ UNCHANGED <<detected, detect_calls, call_vars>>

NextDetect == Detect \/ SetEnv

SpecDetect == InitDetect /\ [][NextDetect]_vars

(***************************************************************************)
(* What the properties below are stated with.                              *)
(***************************************************************************)
\* Text t has pat as a substring.
HasSub(t, pat) ==
    \E i \in 0..(Len(t) - Len(pat)) : SubSeq(t, i + 1, i + Len(pat)) = pat

IsAscii(bytes) == \A i \in 1..Len(bytes) : bytes[i] < 128

\* A byte that occurs in no UTF-8 text.
NeverInUtf8(b) == b \in {192, 193} \cup (245..255)

\* An entry whose value is a readable text: for ASCII the text is the bytes.
Readable(entry) == entry.set /\ IsAscii(entry.value)
Unreadable(entry) ==
    entry.set /\ \E i \in 1..Len(entry.value) : NeverInUtf8(entry.value[i])

\* The result the detection contract gives for an entry (entries that are
\* neither ASCII nor hold a byte of no UTF-8 text are left open).
ContractDetect(entry) ==
    IF ~entry.set \/ Unreadable(entry) THEN {None}
    ELSE IF ~Readable(entry) THEN {None, Some("GNOME"), Some("KDE")}
    ELSE IF HasSub(entry.value, lit_GNOME) THEN {Some("GNOME")}
    ELSE IF HasSub(entry.value, lit_KDE) THEN {Some("KDE")}
    ELSE {None}

ubuntu_GNOME ==
    Str(<<"u", "b", "u", "n", "t", "u", ":", "G", "N", "O", "M", "E">>)

\* The last call's result is the one of the current entry.
Fresh == detected.called /\ ~dirty

EnvironmentName(self) == IF self = "GNOME" THEN lit_GNOME ELSE lit_KDE

lit_tab_creation ==
    Str(<<"t", "a", "b", " ", "c", "r", "e", "a", "t", "i", "o", "n">>)

lit_next_tab_selection ==
    Str(<<"n", "e", "x", "t", " ", "t", "a", "b", " ", "s", "e", "l", "e",
          "c", "t", "i", "o", "n">>)

lit_previous_tab_selection ==
    Str(<<"p", "r", "e", "v", "i", "o", "u", "s", " ", "t", "a", "b", " ",
          "s", "e", "l", "e", "c", "t", "i", "o", "n">>)

ActionDescription(m) ==
    CASE m = "create_tab" -> lit_tab_creation
      [] m = "select_next_tab" -> lit_next_tab_selection
      [] m = "select_previous_tab" -> lit_previous_tab_selection

lit_space == Str(<<" ">>)
lit_failed_colon == Str(<<" ", "f", "a", "i", "l", "e", "d", ":", " ">>)

lit_failed ==
    Str(<<"f", "a", "i", "l", "e", "d">>)

\* Thread t has returned from a tab action.
ReturnedFromTabAction(t) == pc[t] = "returned" /\ op[t] \in TabActions

ExitedWithSuccess(o) == o.ok /\ o.status = Exited(0)

(***************************************************************************)
(* C1: detect_desktop_environment returns GNOME for a value that contains  *)
(* "GNOME", KDE for one that contains "KDE" and not "GNOME", and None when *)
(* the variable is unset or unreadable or its value contains neither; the  *)
(* match is case-sensitive, so "gnome" or "kde" alone gives None.          *)
(***************************************************************************)
C1_DetectBySubstring ==
    Fresh =>
        /\ detected.result \in ContractDetect(xdg)
        /\ xdg = SetTo(ubuntu_GNOME) => detected.result = Some("GNOME")
        /\ xdg = SetTo(lit_KDE) => detected.result = Some("KDE")
        /\ xdg \in { Unset, SetTo(<<255>>),
                     SetTo(lit_XFCE),
                     SetTo(lit_gnome), SetTo(lit_kde) } => detected.result = None

C1_Witness ==
    Fresh /\ xdg = SetTo(ubuntu_GNOME) /\ detected.result = Some("GNOME")

(***************************************************************************)
(* C2: when the process of a tab action exits with a non-success status,   *)
(* the call returns Err whose message contains the environment's name, a   *)
(* description of the action, the word "failed" and the text of the        *)
(* process's standard error (invalid bytes shown as U+FFFD).               *)
(***************************************************************************)
C2_FailureMessage ==
    \A t \in Threads :
        (ReturnedFromTabAction(t) /\ out[t].ok /\ out[t].status # Exited(0)) =>
            /\ ~ret[t].ok
            /\ HasSub(ret[t].err, EnvironmentName(receiver[t]))
            /\ HasSub(ret[t].err, ActionDescription(op[t]))
            /\ HasSub(ret[t].err, lit_failed)
            /\ HasSub(ret[t].err, from_utf8_lossy(out[t].stderr))
            /\ IsAscii(out[t].stderr) => HasSub(ret[t].err, out[t].stderr)

C2_Witness ==
    /\ ReturnedFromTabAction(1) /\ receiver[1] = "KDE"
    /\ op[1] = "select_previous_tab"
    /\ out[1].ok /\ out[1].status = Exited(1)
    /\ out[1].stderr = no_such_window
    /\ ~ret[1].ok /\ HasSub(ret[1].err, no_such_window)

(***************************************************************************)
(* C3: when the process of a tab action cannot be launched, the call       *)
(* returns a failure whose message is "<EnvironmentName>                   *)
(* <action-description> failed: <spawn-error>".                            *)
(***************************************************************************)
C3_SpawnFailureMessage ==
    \A t \in Threads :
        (ReturnedFromTabAction(t) /\ ~out[t].ok) =>
            ret[t] = Err(EnvironmentName(receiver[t]) \o lit_space
                         \o ActionDescription(op[t]) \o lit_failed_colon
                         \o io_error_to_string(out[t].err))

(***************************************************************************)
(* C4: a tab action returns Ok(()) if and only if its process was launched *)
(* and exited with success; the Ok carries no text, whatever the process   *)
(* wrote.                                                                  *)
(***************************************************************************)
C4_OkIffSuccess ==
    \A t \in Threads :
        ReturnedFromTabAction(t) =>
            /\ ret[t].ok <=> ExitedWithSuccess(out[t])
            /\ ret[t].ok => DOMAIN ret[t] = {"ok"}

C4_Witness ==
    /\ ReturnedFromTabAction(1) /\ out[1].ok /\ out[1].status = Exited(0)
    /\ out[1].stderr = no_such_window /\ out[1].stdout # << >>
    /\ ret[1] = Ok

(***************************************************************************)
(* C5: is_available is true if and only if the probe ("which gdbus" for    *)
(* GNOME, "which qdbus" for KDE) was launched and exited with success; a   *)
(* probe that cannot be launched or exits otherwise gives false, never an  *)
(* error.                                                                  *)
(***************************************************************************)
C5_IsAvailable ==
    \A t \in Threads :
        (pc[t] = "returned" /\ op[t] = "is_available") =>
            /\ ret[t] \in BOOLEAN
            /\ ret[t] <=> ExitedWithSuccess(out[t])
            /\ proc[t] = Command("which",
                   <<IF receiver[t] = "GNOME" THEN "gdbus" ELSE "qdbus">>)

C5_Witness ==
    /\ pc[1] = "returned" /\ op[1] = "is_available" /\ receiver[1] = "KDE"
    /\ ~out[1].ok /\ ret[1] = FALSE

(***************************************************************************)
(* C6: a call of a tab action attempts exactly one launch and never a      *)
(* second one, also after a failure; N calls launch at most N processes.   *)
(***************************************************************************)
C6_OneLaunchPerCall ==
    /\ \A t \in Threads :
          /\ attempts[t] <= 1
          /\ pc[t] \in {"wait", "returned"} => attempts[t] = 1
    /\ spawns <= calls

C6_Witness ==
    /\ calls = 2 /\ spawns = 2
    /\ ReturnedFromTabAction(1) /\ ~ret[1].ok /\ attempts[1] = 1

(***************************************************************************)
(* C7: the six (environment, action) pairs select six different            *)
(* invocations; a GNOME pair a gdbus session-bus call of                   *)
(* org.gnome.Shell.Eval, a KDE pair a qdbus command on org.kde.konsole,    *)
(* each with the payload or method of the requested action.                *)
(***************************************************************************)
GnomeMethod(m) ==
    CASE m = "create_tab" -> "new_tab"
      [] m = "select_next_tab" -> "switch_to_next_tab"
      [] m = "select_previous_tab" -> "switch_to_previous_tab"

KdeMethod(m) ==
    CASE m = "create_tab" -> "newTab"
      [] m = "select_next_tab" -> "nextTab"
      [] m = "select_previous_tab" -> "previousTab"

ContractInvocation(self, m) ==
    IF self = "GNOME"
      THEN [program |-> "gdbus",
            args |-> << "call", "--session", "--dest", "org.gnome.Shell",
                        "--object-path", "/org/gnome/Shell",
                        "--method", "org.gnome.Shell.Eval",
                        "global.display.focus_window && global.display.focus_window."
                            \o GnomeMethod(m) \o "()" >>]
      ELSE [program |-> "qdbus",
            args |-> << "org.kde.konsole", "/Konsole",
                        "org.kde.KMainWindow." \o KdeMethod(m) >>]

Pairs == DesktopEnvironment \X TabActions

C7_InvocationTable ==
    /\ \A p, q \in Pairs :
          p # q => command_of(p[2], p[1]) # command_of(q[2], q[1])
    /\ \A t \in Threads :
          (op[t] \in TabActions /\ attempts[t] > 0) =>
              proc[t] = ContractInvocation(receiver[t], op[t])

C7_Witness ==
    /\ pc[1] = "wait" /\ receiver[1] = "KDE" /\ op[1] = "select_next_tab"
    /\ proc[1].program = "qdbus"
    /\ proc[1].args[3] = "org.kde.KMainWindow.nextTab"

(***************************************************************************)
(* C8: detection has no side effect and no cache: every call returns the   *)
(* result for the variable's value at that call, a call made with no       *)
(* change since the last one returns the same result, and no call changes  *)
(* the variable.                                                           *)
(***************************************************************************)
C8_DetectionUncached ==
    [][ detect_calls' # detect_calls =>
          /\ xdg' = xdg
          /\ detected'.called
          /\ detected'.result \in ContractDetect(xdg)
          /\ Fresh => detected'.result = detected.result ]_vars

C8_Witness ==
    /\ detect_calls = 2 /\ Fresh
    /\ xdg = SetTo(lit_KDE) /\ detected.result = Some("KDE")

(***************************************************************************)
(* C9: tab actions called from several threads are independent: each       *)
(* launches its own process, its result is decided by its own              *)
(* environment, action and process outcome alone, and a step of one call   *)
(* leaves what the other calls hold unchanged.                             *)
(***************************************************************************)
ContractResult(self, m, o) ==
    IF ~o.ok THEN Err(io_error_to_string(o.err))
    ELSE IF o.status = Exited(0) THEN Ok
    ELSE Err(EnvironmentName(self) \o lit_space \o ActionDescription(m)
             \o lit_failed_colon
             \o from_utf8_lossy(o.stderr))

Held(t) == <<pc[t], receiver[t], op[t], proc[t], attempts[t], out[t], ret[t]>>

C9_CallsIndependent ==
    /\ [](\A t \in Threads :
            /\ attempts[t] > 0 => proc[t] = command_of(op[t], receiver[t])
            /\ pc[t] = "returned" =>
                  ret[t] = ContractResult(receiver[t], op[t], out[t]))
    /\ [][ \A t \in Threads :
             Held(t)' # Held(t) => \A u \in Threads \ {t} : Held(u)' = Held(u) ]_vars

C9_Witness ==
    /\ pc[1] = "wait" /\ pc[2] = "returned"
    /\ receiver[1] = receiver[2] /\ op[1] = op[2] /\ proc[1] = proc[2]
    /\ out[2].ok /\ out[2].stderr = no_such_window /\ ~ret[2].ok

(***************************************************************************)
(* C10: when the value contains both "GNOME" and "KDE" the result is       *)
(* GNOME, whichever comes first in the value.                              *)
(***************************************************************************)
C10_GnomeBeforeKde ==
    (Fresh /\ Readable(xdg) /\ HasSub(xdg.value, lit_GNOME)
           /\ HasSub(xdg.value, lit_KDE)) =>
        detected.result = Some("GNOME")

C10_Witness ==
    /\ Fresh /\ xdg = SetTo(lit_KDE \o lit_GNOME)
    /\ detected.result = Some("GNOME")

====
